---- MODULE Spec2Model ----
(***************************************************************************)
(* Model of the cyclone performance calculation engine of cyclone.py: the  *)
(* unit conversions, the five core calculation functions and the part of   *)
(* the script that chains them into the performance report.                *)
(*                                                                         *)
(* Numbers.  The program computes with IEEE doubles.  The model computes   *)
(* with exact rationals (and exact square roots), so a result of the model *)
(* is the real number the double approximates; rounding error, overflow    *)
(* to inf of finite operands and underflow are outside the model.  What    *)
(* the model does keep of the float semantics: the values inf, -inf and    *)
(* nan, the difference between a Python float (division by zero raises     *)
(* ZeroDivisionError) and a numpy float64 (division by zero yields inf or  *)
(* nan), and an exception escaping a function.                             *)
(* The efficiencies of the report are computed a second time as the       *)
(* doubles the script holds, every operation rounded to 53 bits (Float64,  *)
(* Report): bounds that are strict at the scale of one rounding error are  *)
(* settled on these.                                                       *)
(***************************************************************************)
EXTENDS Integers, Sequences, FiniteSets, TLC

----------------------------------------------------------------------------
(* Natural numbers of any size: little-endian sequences of limbs, without  *)
(* leading zero limbs; <<>> is zero.  Numerators and denominators outgrow  *)
(* the machine integers of the checker.                                    *)

Base == 100 * 100

RECURSIVE BOfInt(_)
BOfInt(k) == IF k = 0 THEN <<>> ELSE <<k % Base>> \o BOfInt(k \div Base)

Max(S) == CHOOSE x \in S : \A y \in S : y <= x

\* the limb at position k, 0 beyond the ends
Limb(a, k) == IF k >= 1 /\ k <= Len(a) THEN a[k] ELSE 0

BTrim(s) ==
    IF s = <<>> THEN <<>>
    ELSE IF s[Len(s)] # 0 THEN s
    ELSE IF \A k \in 1 .. Len(s) : s[k] = 0 THEN <<>>
    ELSE SubSeq(s, 1, Max({k \in 1 .. Len(s) : s[k] # 0}))

\* the number with the limb sums sm, each below 2 * Base - 1: the carry
\* into a position is found by looking back over the run of sums equal to
\* Base - 1 below it
BCarry[sm \in Seq(Int)] ==
    BTrim(<<>> \o [k \in 1 .. Len(sm) |->
        (sm[k] +
           (IF k = 1 THEN 0
            ELSE IF sm[k - 1] # Base - 1
            THEN (IF sm[k - 1] >= Base THEN 1 ELSE 0)
            ELSE IF \E j \in 1 .. (k - 2) :
                        /\ sm[j] >= Base
                        /\ \A m \in (j + 1) .. (k - 1) : sm[m] = Base - 1
            THEN 1 ELSE 0)) % Base])

\* the number with the limb differences df, found the same way
BBorrow[df \in Seq(Int)] ==
    BTrim(<<>> \o [k \in 1 .. Len(df) |->
        (df[k] -
           (IF k = 1 THEN 0
            ELSE IF df[k - 1] # 0
            THEN (IF df[k - 1] < 0 THEN 1 ELSE 0)
            ELSE IF \E j \in 1 .. (k - 2) :
                        /\ df[j] < 0
                        /\ \A m \in (j + 1) .. (k - 1) : df[m] = 0
            THEN 1 ELSE 0)) % Base])

\* a + b with a shifted n limbs up
BAddShifted[p \in Seq(Int) \X Int \X Seq(Int)] ==
    BCarry[<<>> \o
           [k \in 1 .. ((IF Len(p[1]) + p[2] >= Len(p[3])
                         THEN Len(p[1]) + p[2] ELSE Len(p[3])) + 1)
               |-> Limb(p[1], k - p[2]) + Limb(p[3], k)]]

BAdd(a, b) == BAddShifted[<<a, 0, b>>]

\* a - b for a >= b
BSubLimbs[p \in Seq(Int) \X Seq(Int)] ==
    BBorrow[<<>> \o [k \in 1 .. Len(p[1]) |-> p[1][k] - Limb(p[2], k)]]

BSub(a, b) == BSubLimbs[<<a, b>>]

\* -1, 0 or 1 as a < b, a = b, a > b
BCmp(a, b) ==
    IF Len(a) < Len(b) THEN -1
    ELSE IF Len(a) > Len(b) THEN 1
    ELSE IF a = b THEN 0
    ELSE IF a[Max({k \in 1 .. Len(a) : a[k] # b[k]})]
              < b[Max({k \in 1 .. Len(a) : a[k] # b[k]})] THEN -1
    ELSE 1

\* a * k for a single limb k
BMulS[p \in Seq(Int) \X Int] ==
    BCarry[<<>> \o [j \in 1 .. (Len(p[1]) + 1) |->
               ((Limb(p[1], j) * p[2]) % Base)
                   + ((Limb(p[1], j - 1) * p[2]) \div Base)]]

\* a times the limbs lo..hi of b, halving the range
RECURSIVE BMulRange(_, _, _, _)
BMulRange(a, b, lo, hi) ==
    IF lo = hi THEN BMulS[<<a, b[lo]>>]
    ELSE BAddShifted[<<BMulRange(a, b, (lo + hi) \div 2 + 1, hi),
                       (lo + hi) \div 2 + 1 - lo,
                       BMulRange(a, b, lo, (lo + hi) \div 2)>>]

BMul(a, b) ==
    IF a = <<>> \/ b = <<>> THEN <<>> ELSE BMulRange(a, b, 1, Len(b))

RECURSIVE Gcd(_, _)
Gcd(x, y) == IF y = 0 THEN x ELSE Gcd(y, x % y)

\* a / g for a divisor g of Base that divides a
BDivBy[p \in Seq(Int) \X Int] ==
    BTrim(<<>> \o [j \in 1 .. Len(p[1]) |->
              (p[1][j] \div p[2]) + (Limb(p[1], j + 1) % p[2]) * (Base \div p[2])])

\* the fraction c = <<n, d>> with common factors 2 and 5 cancelled, as far
\* as the lowest limbs show them
RECURSIVE BReduce(_)
BReduceBy(c, g) ==
    IF g = 1 THEN c ELSE BReduce(<<BDivBy[<<c[1], g>>], BDivBy[<<c[2], g>>]>>)

BReduce(c) == BReduceBy(c, Gcd(Gcd(c[1][1], Base), Gcd(c[2][1], Base)))

\* the product of the fractions x and y
FMul(x, y) == <<BMul(x[1], y[1]), BMul(x[2], y[2])>>

----------------------------------------------------------------------------
(* The values of the program's numeric expressions.                        *)
(*   k   "fin" a finite number, "inf" an infinity, "nan", or "raise": the  *)
(*       evaluation did not yield a value, ZeroDivisionError escaped;      *)
(*       "unrep" marks a value the representation cannot hold.             *)
(*   s   the sign, -1, 0 or 1                                              *)
(*   n,d the magnitude n/d, or its square root when r is TRUE              *)
(*   np  TRUE for a numpy float64, FALSE for a Python float or int         *)

Fin(s, c, r, np) ==
    [k |-> "fin", s |-> s, n |-> c[1], d |-> c[2], r |-> r, np |-> np]

Zero(np) == Fin(0, <<<<>>, <<1>>>>, FALSE, np)

One(np) == Fin(1, <<<<1>>, <<1>>>>, FALSE, np)

\* the number s * c[1]/c[2], or its root
Mk(s, c, r, np) ==
    IF s = 0 \/ c[1] = <<>> THEN Zero(np) ELSE Fin(s, BReduce(c), r, np)

Other(kind, s, np) ==
    [k |-> kind, s |-> s, n |-> <<>>, d |-> <<1>>, r |-> FALSE, np |-> np]

Raised == Other("raise", 0, FALSE)

Sgn(i) == IF i < 0 THEN -1 ELSE IF i > 0 THEN 1 ELSE 0
Abs(i) == IF i < 0 THEN -i ELSE i

\* the Python number a/b, for integers a and b > 0
Q(a, b) == Mk(Sgn(a), <<BOfInt(Abs(a)), BOfInt(b)>>, FALSE, FALSE)

\* the Python integer a
I(a) == Fin(Sgn(a), <<BOfInt(Abs(a)), <<1>>>>, FALSE, FALSE)

\* float('inf')
PyInf == Other("inf", 1, FALSE)

\* the same number as a numpy float64
AsNp(x) == [x EXCEPT !.np = TRUE]

IsFin(x) == x.k = "fin"
IsZero(x) == x.k = "fin" /\ x.s = 0

\* np.isinf
IsInf(x) == x.k = "inf"

Frac(x) == <<x.n, x.d>>

\* the squared magnitude of a finite x
SqMag(x) == IF x.r THEN Frac(x) ELSE FMul(Frac(x), Frac(x))

\* s times the order of the fractions x and y
CmpCross(s, x, y) == s * BCmp(BMul(x[1], y[2]), BMul(y[1], x[2]))

\* a against b, sq being the square of the one that is not a root when
\* only one of them is
CmpSq(a, b, sq) ==
    CmpCross(a.s, IF a.r = b.r \/ a.r THEN Frac(a) ELSE sq,
                  IF a.r = b.r \/ b.r THEN Frac(b) ELSE sq)

\* -1, 0 or 1 as a < b, a = b, a > b, for finite a and b
Cmp(a, b) ==
    IF a.s # b.s THEN (IF a.s < b.s THEN -1 ELSE 1)
    ELSE IF a.s = 0 THEN 0
    ELSE CmpSq(a, b, IF a.r = b.r THEN <<>> ELSE SqMag(IF a.r THEN b ELSE a))

\* a <= b, a < b as Python evaluates them: FALSE when either side is nan
Le(a, b) ==
    CASE a.k = "fin" /\ b.k = "fin" -> Cmp(a, b) <= 0
      [] a.k = "inf" /\ b.k = "inf" -> a.s <= b.s
      [] a.k = "inf" /\ b.k = "fin" -> a.s < 0
      [] a.k = "fin" /\ b.k = "inf" -> b.s > 0
      [] OTHER -> FALSE

Lt(a, b) ==
    CASE a.k = "fin" /\ b.k = "fin" -> Cmp(a, b) < 0
      [] a.k = "inf" /\ b.k = "inf" -> a.s < b.s
      [] a.k = "inf" /\ b.k = "fin" -> a.s < 0
      [] a.k = "fin" /\ b.k = "inf" -> b.s > 0
      [] OTHER -> FALSE

\* the same outcome: the same number, the same infinity, both nan, both raised
Same(a, b) ==
    /\ a.k = b.k
    /\ a.k = "fin" => Cmp(a, b) = 0
    /\ a.k = "inf" => a.s = b.s

Neg(a) == IF a.k \in {"fin", "inf"} THEN [a EXCEPT !.s = -a.s] ELSE a

\* sa * x/d + sb * y/d for magnitudes x/d and y/d ordered as c tells
AddCross(sa, sb, x, y, d, c, np) ==
    Mk(IF sa = sb \/ c > 0 THEN sa ELSE IF c = 0 THEN 0 ELSE sb,
       <<IF sa = sb THEN BAdd(x, y)
         ELSE BSub(IF c >= 0 THEN x ELSE y, IF c >= 0 THEN y ELSE x), d>>,
       FALSE, np)

AddFin(sa, sb, x, y, d, np) == AddCross(sa, sb, x, y, d, BCmp(x, y), np)

\* a + b
Add(a, b) ==
    CASE a.k = "raise" \/ b.k = "raise" -> Raised
      [] a.k = "unrep" \/ b.k = "unrep" -> Other("unrep", 0, a.np \/ b.np)
      [] a.k = "nan" \/ b.k = "nan" -> Other("nan", 0, a.np \/ b.np)
      [] a.k = "inf" /\ b.k = "inf" ->
            IF a.s = b.s THEN Other("inf", a.s, a.np \/ b.np)
            ELSE Other("nan", 0, a.np \/ b.np)
      [] a.k = "inf" -> Other("inf", a.s, a.np \/ b.np)
      [] b.k = "inf" -> Other("inf", b.s, a.np \/ b.np)
      [] OTHER ->
            IF a.s = 0 THEN [b EXCEPT !.np = a.np \/ b.np]
            ELSE IF b.s = 0 THEN [a EXCEPT !.np = a.np \/ b.np]
            ELSE IF a.r \/ b.r THEN Other("unrep", 0, a.np \/ b.np)
            ELSE AddFin(a.s, b.s, BMul(a.n, b.d), BMul(b.n, a.d),
                        BMul(a.d, b.d), a.np \/ b.np)

Sub(a, b) == Add(a, Neg(b))

\* a * b: the square of a root is its radicand, the product of two roots or
\* of two rationals is taken in place, and a rational is squared to go
\* under a root
Mul(a, b) ==
    CASE a.k = "raise" \/ b.k = "raise" -> Raised
      [] a.k = "unrep" \/ b.k = "unrep" -> Other("unrep", 0, a.np \/ b.np)
      [] a.k = "nan" \/ b.k = "nan" -> Other("nan", 0, a.np \/ b.np)
      [] a.k = "inf" \/ b.k = "inf" ->
            IF a.s * b.s = 0 THEN Other("nan", 0, a.np \/ b.np)
            ELSE Other("inf", a.s * b.s, a.np \/ b.np)
      [] OTHER ->
            IF a.s * b.s = 0 THEN Zero(a.np \/ b.np)
            ELSE IF a.r /\ b.r /\ a.n = b.n /\ a.d = b.d
            THEN Fin(a.s * b.s, Frac(a), FALSE, a.np \/ b.np)
            ELSE Mk(a.s * b.s,
                    FMul(IF a.r = b.r \/ a.r THEN Frac(a) ELSE Frac(b),
                         IF a.r = b.r THEN Frac(b)
                         ELSE SqMag(IF a.r THEN b ELSE a)),
                    a.r \/ b.r, a.np \/ b.np)

\* a / b: a zero divisor raises ZeroDivisionError between Python numbers and
\* yields inf or nan (with a warning) when a numpy float64 is involved
Div(a, b) ==
    CASE a.k = "raise" \/ b.k = "raise" -> Raised
      [] a.k = "unrep" \/ b.k = "unrep" -> Other("unrep", 0, a.np \/ b.np)
      [] IsZero(b) ->
            IF ~(a.np \/ b.np) THEN Raised
            ELSE IF a.k = "nan" \/ IsZero(a) THEN Other("nan", 0, TRUE)
            ELSE Other("inf", a.s, TRUE)
      [] a.k = "nan" \/ b.k = "nan" -> Other("nan", 0, a.np \/ b.np)
      [] a.k = "inf" /\ b.k = "inf" -> Other("nan", 0, a.np \/ b.np)
      [] a.k = "inf" -> Other("inf", a.s * b.s, a.np \/ b.np)
      [] b.k = "inf" -> Zero(a.np \/ b.np)
      [] OTHER -> Mul(a, [b EXCEPT !.n = b.d, !.d = b.n])

\* a ** e for an integer e
RECURSIVE Pow(_, _)
Pow(a, e) ==
    IF a.k = "raise" THEN Raised
    ELSE IF e = 0 THEN One(a.np)
    ELSE IF e < 0 THEN Div(One(a.np), Pow(a, -e))
    ELSE IF e = 1 THEN a
    ELSE Mul(a, Pow(a, e - 1))

\* np.sqrt: nan (with a warning) below zero, a numpy float64 in every case
Sqrt(a) ==
    CASE a.k = "raise" -> Raised
      [] a.k = "unrep" -> Other("unrep", 0, TRUE)
      [] a.k = "nan" -> Other("nan", 0, TRUE)
      [] a.k = "inf" -> IF a.s > 0 THEN Other("inf", 1, TRUE) ELSE Other("nan", 0, TRUE)
      [] OTHER ->
            IF a.s < 0 THEN Other("nan", 0, TRUE)
            ELSE IF a.s = 0 THEN Zero(TRUE)
            ELSE IF a.r THEN Other("unrep", 0, TRUE)
            ELSE [a EXCEPT !.r = TRUE, !.np = TRUE]

----------------------------------------------------------------------------
(* The double nearest to a number: 53 significant bits, ties to the even   *)
(* mantissa.  The exponent range is not modelled.                          *)

\* 2^52, the least 53-bit mantissa
Two52 == BMul(BOfInt(67108864), BOfInt(67108864))

\* n times the greatest power of f that keeps it at or below lo, with
\* that power times p
RECURSIVE ScaleUpBy(_, _, _, _)
ScaleUpBy(n, p, lo, f) ==
    IF Len(p) >= 0 /\ BCmp(BMulS[<<n, f>>], lo) > 0 THEN <<n, p>>
    ELSE ScaleUpBy(BMulS[<<n, f>>], BMulS[<<p, f>>], lo, f)

\* n doubled until it reaches lo, with the power of two it was scaled by
RECURSIVE ScaleUpFine(_, _, _)
ScaleUpFine(n, p, lo) ==
    IF Len(p) >= 0 /\ BCmp(n, lo) >= 0 THEN <<n, p>>
    ELSE ScaleUpFine(BMulS[<<n, 2>>], BMulS[<<p, 2>>], lo)

ScaleUp(n, p, lo) ==
    ScaleUpFine(ScaleUpBy(n, p, lo, 8192)[1], ScaleUpBy(n, p, lo, 8192)[2], lo)

\* hi times the greatest power of f that keeps it at or below n, with that
\* power times p
RECURSIVE ScaleDownBy(_, _, _, _)
ScaleDownBy(hi, p, n, f) ==
    IF Len(p) >= 0 /\ BCmp(BMulS[<<hi, f>>], n) > 0 THEN <<hi, p>>
    ELSE ScaleDownBy(BMulS[<<hi, f>>], BMulS[<<p, f>>], n, f)

\* hi doubled until it exceeds n, with the power of two it was scaled by
RECURSIVE ScaleDownFine(_, _, _)
ScaleDownFine(hi, p, n) ==
    IF Len(p) >= 0 /\ BCmp(n, hi) < 0 THEN <<hi, p>>
    ELSE ScaleDownFine(BMulS[<<hi, 2>>], BMulS[<<p, 2>>], n)

ScaleDown(hi, p, n) ==
    ScaleDownFine(ScaleDownBy(hi, p, n, 8192)[1], ScaleDownBy(hi, p, n, 8192)[2], n)

\* long division, one bit of the quotient at a time: m is the quotient so
\* far, rem the remainder and t the divisor times 2^bit.  A run ends at
\* every thirteenth bit with <<m, rem, t>>.
RECURSIVE DivBits(_, _, _, _)
RECURSIVE DivStep(_, _, _, _)
DivStep(rem, t, bit, m) ==
    IF Len(m) >= 0 /\ bit % 13 = 0 THEN <<m, rem, t>>
    ELSE DivBits(rem, BDivBy[<<t, 2>>], bit - 1, m)

DivBits(rem, t, bit, m) ==
    IF BCmp(rem, t) >= 0
    THEN DivStep(BSub(rem, t), t, bit, BAdd(BMulS[<<m, 2>>], <<1>>))
    ELSE DivStep(rem, t, bit, BMulS[<<m, 2>>])

\* the runs below bit, from the state q of the division
RECURSIVE DivRuns(_, _)
DivRuns(q, bit) ==
    IF bit = 0 THEN q
    ELSE DivRuns(DivBits(q[2], BDivBy[<<q[3], 2>>], bit - 1, q[1]), bit - 13)

\* the 53-bit quotient of n by t / 2^52, its remainder and the divisor
Div53(n, t) == DivRuns(DivBits(n, t, 52, <<>>), 52)

\* the quotient q[1] rounded on its remainder q[2] by the divisor q[3]
HalfEven(q) ==
    IF \/ BCmp(BMulS[<<q[2], 2>>], q[3]) > 0
       \/ BCmp(BMulS[<<q[2], 2>>], q[3]) = 0 /\ q[1][1] % 2 = 1
    THEN BAdd(q[1], <<1>>) ELSE q[1]

Float64Divided(x, up, down) ==
    Mk(x.s, <<BMul(HalfEven(Div53(up[1], BDivBy[<<down[1], 2>>])), down[2]), up[2]>>, FALSE, x.np)

Float64Scaled(x, up) ==
    Float64Divided(x, up, ScaleDown(BMulS[<<BMul(x.d, Two52), 2>>], <<1>>, up[1]))

\* the double a finite operation's exact result is rounded to
Float64(x) ==
    IF x.k # "fin" \/ x.s = 0 THEN x
    ELSE IF x.r THEN Other("unrep", x.s, x.np)
    ELSE Float64Scaled(x, ScaleUp(x.n, <<1>>, BMul(x.d, Two52)))

----------------------------------------------------------------------------
(* The core calculation functions.                                         *)

\* math.pi: the double 884279719003555 / 2^48
Pi ==
    Fin(1, <<BAdd(BMul(BOfInt(88427971), BOfInt(10000000)), BOfInt(9003555)),
             BMul(BOfInt(16777216), BOfInt(16777216))>>, FALSE, FALSE)

\* the value returned for a non-positive inlet height
DefaultTurns == 6

\* the guard written inlet_height < 0
effective_turns_strict_guard(inlet_height, body_length, cone_length) ==
    IF Lt(inlet_height, I(0)) THEN I(DefaultTurns)
    ELSE Mul(Div(I(1), inlet_height), Add(body_length, Div(cone_length, I(2))))

calculate_effective_turns(inlet_height, body_length, cone_length) ==
    IF Le(inlet_height, I(0)) THEN I(DefaultTurns)
    ELSE Mul(Div(I(1), inlet_height), Add(body_length, Div(cone_length, I(2))))

\* the guard without its test of the inlet velocity
cut_size_no_velocity_guard(inlet_width, gas_viscosity, inlet_velocity, effective_turns, particle_density, gas_density) ==
    IF \/ Le(Sub(particle_density, gas_density), I(0))
       \/ Le(effective_turns, I(0))
    THEN PyInf
    ELSE LET numerator == Mul(Mul(I(9), gas_viscosity), inlet_width)
             denominator ==
                 Mul(Mul(Mul(Mul(I(2), Pi), effective_turns), inlet_velocity),
                     Sub(particle_density, gas_density))
         IN  Sqrt(Div(numerator, denominator))

\* the numerator written with Stokes' 18 in place of 9
cut_size_stokes_factor(inlet_width, gas_viscosity, inlet_velocity, effective_turns, particle_density, gas_density) ==
    IF \/ Le(Sub(particle_density, gas_density), I(0))
       \/ Le(effective_turns, I(0))
       \/ Le(inlet_velocity, I(0))
    THEN PyInf
    ELSE LET numerator == Mul(Mul(I(18), gas_viscosity), inlet_width)
             denominator ==
                 Mul(Mul(Mul(Mul(I(2), Pi), effective_turns), inlet_velocity),
                     Sub(particle_density, gas_density))
         IN  Sqrt(Div(numerator, denominator))

calculate_cut_size(inlet_width, gas_viscosity, inlet_velocity, effective_turns, particle_density, gas_density) ==
    IF \/ Le(Sub(particle_density, gas_density), I(0))
       \/ Le(effective_turns, I(0))
       \/ Le(inlet_velocity, I(0))
    THEN PyInf
    ELSE LET numerator == Mul(Mul(I(9), gas_viscosity), inlet_width)
             denominator ==
                 Mul(Mul(Mul(Mul(I(2), Pi), effective_turns), inlet_velocity),
                     Sub(particle_density, gas_density))
         IN  Sqrt(Div(numerator, denominator))

\* the guard written cut_size_micron < 0
collection_efficiency_strict_guard(particle_size_micron, cut_size_micron) ==
    IF Lt(cut_size_micron, I(0)) \/ IsInf(cut_size_micron) THEN I(0)
    ELSE LET ratio == Div(cut_size_micron, particle_size_micron)
         IN  Div(I(1), Add(I(1), Pow(ratio, 2)))

\* the ratio written particle size over cut-size
collection_efficiency_inverted_ratio(particle_size_micron, cut_size_micron) ==
    IF Le(cut_size_micron, I(0)) \/ IsInf(cut_size_micron) THEN I(0)
    ELSE LET ratio == Div(particle_size_micron, cut_size_micron)
         IN  Div(I(1), Add(I(1), Pow(ratio, 2)))

calculate_collection_efficiency(particle_size_micron, cut_size_micron) ==
    IF Le(cut_size_micron, I(0)) \/ IsInf(cut_size_micron) THEN I(0)
    ELSE LET ratio == Div(cut_size_micron, particle_size_micron)
         IN  Div(I(1), Add(I(1), Pow(ratio, 2)))

\* the loss of one stage returned whatever the number of stages
system_pressure_loss_single_stage(gas_density, inlet_velocity, pressure_coefficient, series_count) ==
    Mul(Mul(Mul(Q(1, 2), gas_density), Pow(inlet_velocity, 2)),
        pressure_coefficient)

calculate_system_pressure_loss(gas_density, inlet_velocity, pressure_coefficient, series_count) ==
    LET single_cyclone_loss ==
            Mul(Mul(Mul(Q(1, 2), gas_density), Pow(inlet_velocity, 2)),
                pressure_coefficient)
    IN  Mul(single_cyclone_loss, series_count)

\* the penetration (1 - eta)^N returned in place of the efficiency
multi_efficiency_penetration(single_efficiency, cyclone_count) ==
    Pow(Sub(I(1), single_efficiency), cyclone_count)

\* the units' penetrations multiplied by the count instead of compounded
multi_efficiency_linear(single_efficiency, cyclone_count) ==
    Sub(I(1), Mul(Sub(I(1), single_efficiency), I(cyclone_count)))

\* cyclone_count is an integer
calculate_multi_cyclone_efficiency(single_efficiency, cyclone_count) ==
    Sub(I(1), Pow(Sub(I(1), single_efficiency), cyclone_count))

----------------------------------------------------------------------------
(* The calculation the script runs on the values of its input widgets.     *)
(* i is the record of the script's variables when the input section ends:  *)
(*   preset          "actual" for the series-parallel design case, else    *)
(*                   one of the other presets                              *)
(*   W, H, Lb, Lc    inlet width, inlet height, body length, cone length   *)
(*   V_in, Q_total, mu, rho_g, rho_p                                       *)
(*   series_count, parallel_count, n_cyclones, model_type, dp_range        *)

\* The conversions of CycloneUnits.
m3_per_s_to_m3_per_min(flow_rate) == Mul(flow_rate, I(60))

\* the flow rate multiplied by 60 in both directions
m3_per_min_to_m3_per_s_multiplied(flow_rate) == Mul(flow_rate, I(60))

m3_per_min_to_m3_per_s(flow_rate) == Div(flow_rate, I(60))

m_per_s_to_m_per_min(velocity) == Mul(velocity, I(60))

m_per_min_to_m_per_s(velocity) == Div(velocity, I(60))

\* the literal 1e-6: the double 4722366482869645 / 2^72
MicroFactor ==
    Fin(1, <<BAdd(BMul(BOfInt(472236648), BOfInt(10000000)), BOfInt(2869645)),
             BMul(BMul(BOfInt(16777216), BOfInt(16777216)), BOfInt(16777216))>>,
        FALSE, FALSE)

micron_to_meter(size_micron) == Mul(size_micron, MicroFactor)

meter_to_micron(size_meter) == Mul(size_meter, I(1000000))

pa_to_kpa(pressure_pa) == Div(pressure_pa, I(1000))

kpa_to_pa(pressure_kpa) == Mul(pressure_kpa, I(1000))

\* the conversion of the given name
Convert(name, x) ==
    CASE name = "m3_per_s_to_m3_per_min" -> m3_per_s_to_m3_per_min(x)
      [] name = "m3_per_min_to_m3_per_s" -> m3_per_min_to_m3_per_s(x)
      [] name = "m_per_s_to_m_per_min" -> m_per_s_to_m_per_min(x)
      [] name = "m_per_min_to_m_per_s" -> m_per_min_to_m_per_s(x)
      [] name = "micron_to_meter" -> micron_to_meter(x)
      [] name = "meter_to_micron" -> meter_to_micron(x)
      [] name = "pa_to_kpa" -> pa_to_kpa(x)
      [] name = "kpa_to_pa" -> kpa_to_pa(x)

\* the pairs of opposite conversions
ConversionPairs ==
    { <<"m3_per_s_to_m3_per_min", "m3_per_min_to_m3_per_s">>,
      <<"m_per_s_to_m_per_min", "m_per_min_to_m_per_s">>,
      <<"micron_to_meter", "meter_to_micron">>,
      <<"pa_to_kpa", "kpa_to_pa">> }

\* the least integer >= x, for a finite rational x
RECURSIVE CeilFrom(_, _, _)
CeilFrom(n, d, k) ==
    IF BCmp(BMulS[<<d, k>>], n) >= 0 THEN k ELSE CeilFrom(n, d, k + 1)

RECURSIVE FloorFrom(_, _, _)
FloorFrom(n, d, k) ==
    IF BCmp(BMulS[<<d, k + 1>>], n) > 0 THEN k ELSE FloorFrom(n, d, k + 1)

\* int(np.ceil(x))
CeilInt(x) == IF x.s > 0 THEN CeilFrom(x.n, x.d, 0) ELSE -FloorFrom(x.n, x.d, 0)

Min(a, b) == IF a <= b THEN a ELSE b

\* the pressure coefficient the script passes
PressureCoefficient == 16

\* the wrapper kept for the older call sites: its model and preset are unused
calculate_pressure_loss(model_type, rho_g, V_in, series_count, preset_option) ==
    calculate_system_pressure_loss(rho_g, V_in, I(PressureCoefficient),
                                   series_count)

\* series_count as the calculation uses it
SeriesCount(i) == IF i.preset = "actual" THEN i.series_count ELSE 1

\* int(np.ceil(Q_total / Q_single))
RequiredCyclones(i) ==
    LET inlet_area == Mul(i.W, i.H)
        single_cyclone_flow == Mul(i.V_in, inlet_area)
    IN  CeilInt(Div(i.Q_total, single_cyclone_flow))

\* the selectbox's count kept as it is
NCyclonesSelected(i, required_cyclones) == i.n_cyclones

\* n_cyclones as the calculation uses it: at most two outside the
\* series-parallel design case
NCyclones(i, required_cyclones) ==
    IF i.preset # "actual" THEN Min(required_cyclones, 2) ELSE i.n_cyclones

\* number of points of the efficiency curve
CurvePoints == 3

\* np.linspace(dp_range[0], dp_range[1], CurvePoints): numpy float64 values
DpArray(i) ==
    <<>> \o [j \in 1 .. CurvePoints |->
        AsNp(Add(i.dp_range[1],
                 Mul(Q(j - 1, CurvePoints - 1),
                     Sub(i.dp_range[2], i.dp_range[1]))))]

EtaArray(dp_array, cut_size_micron) ==
    <<>> \o [j \in 1 .. Len(dp_array) |->
        calculate_collection_efficiency(dp_array[j], cut_size_micron)]

\* the unit count the efficiencies are compounded with
CompoundCount(preset, series_count, n_cyclones) ==
    IF preset = "actual" /\ series_count > 1 THEN series_count ELSE n_cyclones

\* the curve compounded with n_cyclones whatever the configuration
EtaMultiArrayByUnits(eta_array, preset, series_count, n_cyclones) ==
    <<>> \o [j \in 1 .. Len(eta_array) |->
        calculate_multi_cyclone_efficiency(eta_array[j], n_cyclones)]

EtaMultiArray(eta_array, preset, series_count, n_cyclones) ==
    <<>> \o [j \in 1 .. Len(eta_array) |->
        calculate_multi_cyclone_efficiency(
            eta_array[j], CompoundCount(preset, series_count, n_cyclones))]

\* the particle size distribution of the efficiency table
image_particle_data ==
    << [size_range |-> "1~5",    dp_avg |-> Q(5, 2), Mj_percent |-> I(5)],
       [size_range |-> "5~10",   dp_avg |-> Q(15, 2), Mj_percent |-> I(10)],
       [size_range |-> "10~20",  dp_avg |-> I(15),   Mj_percent |-> I(10)],
       [size_range |-> "20~40",  dp_avg |-> I(30),   Mj_percent |-> I(15)],
       [size_range |-> "40~60",  dp_avg |-> I(50),   Mj_percent |-> I(15)],
       [size_range |-> "60~80",  dp_avg |-> I(70),   Mj_percent |-> I(20)],
       [size_range |-> "80~100", dp_avg |-> I(90),   Mj_percent |-> I(15)],
       [size_range |-> "100+",   dp_avg |-> I(100),  Mj_percent |-> I(10)] >>

\* one row of the efficiency table: the values the loop computes for a bin
TableRowOf(item, dpc_dp, eta_single) ==
    [size_range |-> item.size_range, dp_avg |-> item.dp_avg,
     dpc_dp |-> dpc_dp, Nj |-> eta_single, Mj_percent |-> item.Mj_percent,
     collected |-> Mul(eta_single, item.Mj_percent)]

TableRowAt(item, dpc_dp) ==
    TableRowOf(item, dpc_dp, Div(I(1), Add(I(1), Pow(dpc_dp, 2))))

TableRow(item, cut_size_micron) ==
    TableRowAt(item, Div(cut_size_micron, item.dp_avg))

EfficiencyTable(cut_size_micron) ==
    <<>> \o [j \in 1 .. Len(image_particle_data) |->
        TableRow(image_particle_data[j], cut_size_micron)]

\* the running total overwritten by each row instead of added to
TotalCollectedLastOnly(rows, j) ==
    IF j = 0 THEN I(0) ELSE rows[j].collected

\* total_single_collected: the rows' collected percentages added up from 0.0
RECURSIVE TotalCollected(_, _)
TotalCollected(rows, j) ==
    IF j = 0 THEN I(0) ELSE Add(TotalCollected(rows, j - 1), rows[j].collected)

\* the penetration, in percent, in place of the efficiency
MultiCyclonePenetration(single_cyclone_efficiency, preset, series_count, n_cyclones) ==
    Mul(Pow(Sub(I(1), Div(single_cyclone_efficiency, I(100))),
            CompoundCount(preset, series_count, n_cyclones)),
        I(100))

\* multi_cyclone_efficiency, in percent
MultiCycloneEfficiency(single_cyclone_efficiency, preset, series_count, n_cyclones) ==
    Mul(Sub(I(1),
            Pow(Sub(I(1), Div(single_cyclone_efficiency, I(100))),
                CompoundCount(preset, series_count, n_cyclones))),
        I(100))

\* The efficiencies of the report as the doubles the script holds: every
\* operation of the table loop and of the compounding rounded.
CollectedFloatAt(item, dpc_dp) ==
    Float64(Mul(Float64(Div(I(1), Float64(Add(I(1), Float64(Pow(dpc_dp, 2)))))), item.Mj_percent))

CollectedFloat(item, cut_size_micron) ==
    CollectedFloatAt(item, Float64(Div(cut_size_micron, item.dp_avg)))

RECURSIVE TotalCollectedFloat(_, _)
TotalCollectedFloat(cut_size_micron, j) ==
    IF j = 0 THEN Zero(FALSE)
    ELSE Float64(Add(TotalCollectedFloat(cut_size_micron, j - 1),
                     CollectedFloat(image_particle_data[j], cut_size_micron)))

\* 1 - single_cyclone_efficiency/100, raised to the unit count
PenetrationFloat(single_cyclone_efficiency, cyclone_count) ==
    Float64(Pow(Float64(Sub(I(1), Float64(Div(single_cyclone_efficiency, I(100))))), cyclone_count))

\* the penetration, in percent, in place of the efficiency
MultiCyclonePenetrationFloat(single_cyclone_efficiency, preset, series_count, n_cyclones) ==
    Float64(Mul(PenetrationFloat(single_cyclone_efficiency, CompoundCount(preset, series_count, n_cyclones)), I(100)))

MultiCycloneEfficiencyFloat(single_cyclone_efficiency, preset, series_count, n_cyclones) ==
    Float64(Mul(Float64(Sub(I(1), PenetrationFloat(single_cyclone_efficiency, CompoundCount(preset, series_count, n_cyclones)))), I(100)))

ReportOf(a, single_cyclone_efficiency) ==
    [single_cyclone_efficiency |-> single_cyclone_efficiency,
     multi_cyclone_efficiency |->
        MultiCycloneEfficiencyFloat(single_cyclone_efficiency, a.preset,
                                    a.series_count, a.n_cyclones)]

Report(a) ==
    ReportOf(a, TotalCollectedFloat(a.cut_size_micron,
                                    Len(image_particle_data)))

\* The script's calculation, statement by statement: r holds the values of
\* the variables assigned so far.
WithCutSize(i, r) ==
    r @@ [cut_size_meter |->
            calculate_cut_size(i.W, i.mu, i.V_in, r.effective_turns,
                               i.rho_p, i.rho_g)]

WithCutSizeMicron(r) ==
    r @@ [cut_size_micron |-> meter_to_micron(r.cut_size_meter)]

WithSeriesCount(i, r) == r @@ [series_count |-> SeriesCount(i)]

WithPressureLoss(i, r) ==
    r @@ [system_pressure_loss |->
            calculate_system_pressure_loss(i.rho_g, i.V_in,
                                           I(PressureCoefficient),
                                           I(r.series_count)),
          pressure_loss |->
            calculate_pressure_loss(i.model_type, i.rho_g, i.V_in,
                                    I(r.series_count), i.preset)]

WithRequiredCyclones(i, r) == r @@ [required_cyclones |-> RequiredCyclones(i)]

WithCycloneCount(i, r) ==
    r @@ [n_cyclones |-> NCyclones(i, r.required_cyclones)]

\* the notices the script shows with its results: the standing note that
\* the results are those of the Lapple model, and the warning that two
\* cyclones do not carry the flow
Notices(i, required_cyclones) ==
    {"lapple_model_basis"}
    \cup (IF i.preset # "actual" /\ required_cyclones > 2
          THEN {"flow_exceeds_two_cyclones"} ELSE {})

WithNotices(i, r) == r @@ [notices |-> Notices(i, r.required_cyclones)]

WithCurve(i, r) == r @@ [dp_array |-> DpArray(i)]

WithEtaArray(r) ==
    r @@ [eta_array |-> EtaArray(r.dp_array, r.cut_size_micron)]

WithEtaMultiArray(i, r) ==
    r @@ [eta_multi_array |->
            EtaMultiArray(r.eta_array, i.preset, r.series_count, r.n_cyclones)]

WithTable(r) == r @@ [efficiency_table |-> EfficiencyTable(r.cut_size_micron)]

WithSingleEfficiency(r) ==
    r @@ [single_cyclone_efficiency |->
            TotalCollected(r.efficiency_table, Len(r.efficiency_table))]

WithMultiEfficiency(i, r) ==
    r @@ [multi_cyclone_efficiency |->
            MultiCycloneEfficiency(r.single_cyclone_efficiency, i.preset,
                                   r.series_count, r.n_cyclones)]

\* the statements up to the unit counts
Upstream(i) ==
    WithNotices(i,
      WithCycloneCount(i,
        WithRequiredCyclones(i,
          WithPressureLoss(i,
            WithSeriesCount(i,
              WithCutSizeMicron(
                WithCutSize(i,
                  [effective_turns |->
                      calculate_effective_turns(i.H, i.Lb, i.Lc)])))))))

\* the efficiency curves, from the cut-size and the unit counts held in r
Curves(i, r) == WithEtaMultiArray(i, WithEtaArray(WithCurve(i, r)))

\* The unit counts and the curves computed a second time: each statement
\* assigns its variable again, from the variables as they then are.
RecomputeRequired(i, r) ==
    [required_cyclones |-> RequiredCyclones(i)] @@ r

\* the second computation without the limit of two units
RecomputeCycloneCountUncapped(i, r) ==
    [n_cyclones |->
        IF i.preset # "actual" THEN r.required_cyclones ELSE r.n_cyclones]
    @@ r

RecomputeCycloneCount(i, r) ==
    [n_cyclones |->
        IF i.preset # "actual" THEN Min(r.required_cyclones, 2)
        ELSE r.n_cyclones]
    @@ r

RecomputeCurve(i, r) == [dp_array |-> DpArray(i)] @@ r

RecomputeEtaArray(r) ==
    [eta_array |-> EtaArray(r.dp_array, r.cut_size_micron)] @@ r

RecomputeEtaMultiArray(i, r) ==
    [eta_multi_array |->
        EtaMultiArray(r.eta_array, i.preset, r.series_count, r.n_cyclones)]
    @@ r

\* first: the values of the first computation, kept for comparison
WithRecomputation(i, r) ==
    RecomputeEtaMultiArray(i,
      RecomputeEtaArray(
        RecomputeCurve(i,
          RecomputeCycloneCount(i,
            RecomputeRequired(i,
              [first |-> [required_cyclones |-> r.required_cyclones,
                          n_cyclones |-> r.n_cyclones,
                          eta_array |-> r.eta_array,
                          eta_multi_array |-> r.eta_multi_array]] @@ r)))))

\* the efficiency table and the overall efficiencies
Results(i, r) ==
    WithMultiEfficiency(i, WithSingleEfficiency(WithTable(r)))

\* the statements that follow the unit counts: the efficiency curves, the
\* efficiency table and the overall efficiencies, from the cut-size and the
\* unit counts held in r
Downstream(i, r) == Results(i, Curves(i, r))

\* everything the script computes from its inputs
Pipeline(i) == Results(i, WithRecomputation(i, Curves(i, Upstream(i))))

----------------------------------------------------------------------------
(* State.  fn, args, res: a call of a core function, its arguments and     *)
(* what the call yields (Pending until the call is made).  inp, out: the   *)
(* values of the script's input widgets and the results the script         *)
(* computed from them on its last run.                                     *)

VARIABLES fn, args, res, inp, out

vars == <<fn, args, res, inp, out>>

\* largest unit count, series count and parallel count
MaxCount == 6
MaxSeries == 3
MaxParallel == 2

\* the design presets: "actual" is the series-parallel design case,
\* "custom" stands for the others, which the calculation treats alike
Presets == {"custom", "actual"}

\* the options of the efficiency model selectbox
Models == {"Lapple", "EPA Standard"}

\* the default range of the particle size slider
DefaultRange == <<I(1), I(100)>>

\* the widgets' defaults for the series-parallel design case
DefaultSeries == 2
DefaultParallel == 10

\* max_cyclones: the options of the cyclone-count selectbox are 1..max_cyclones
MaxCyclones(Q_total) ==
    IF Le(Q_total, I(6)) THEN 1
    ELSE IF Le(Q_total, I(12)) THEN Min(4, CeilInt(Div(Q_total, I(6))))
    ELSE Min(8, CeilInt(Div(Q_total, I(6))))

\* the values the widgets take when a preset is selected: the defaults the
\* preset gives them
PresetDefaults(p) ==
    IF p = "actual"
    THEN [preset |-> p, W |-> Q(3, 5), H |-> Q(6, 5), Lb |-> Q(24, 5),
          Lc |-> Q(24, 5), V_in |-> Q(377, 25), Q_total |-> Q(521, 50),
          mu |-> Q(149, 5000000), rho_g |-> Q(239, 400), rho_p |-> I(480),
          series_count |-> DefaultSeries,
          parallel_count |-> Min(DefaultParallel, MaxParallel),
          n_cyclones |-> DefaultSeries * Min(DefaultParallel, MaxParallel),
          dp_range |-> <<I(1), I(80)>>]
    ELSE [preset |-> p, W |-> Q(1, 5), H |-> Q(4, 5), Lb |-> Q(4, 5),
          Lc |-> I(1), V_in |-> Q(183, 10), Q_total |-> I(6),
          mu |-> Q(181, 10000000), rho_g |-> Q(49, 40), rho_p |-> I(2650),
          series_count |-> 1, parallel_count |-> 1,
          n_cyclones |-> MaxCyclones(I(6)), dp_range |-> DefaultRange]

\* the numbers the calls are made with: negative, zero and positive
Lengths == {I(-1), I(0), Q(1, 2), I(2)}
Widths == {I(-1), I(0), Q(1, 5), Q(3, 5)}
Viscosities == {I(-1), I(0), Q(181, 10000000)}
Velocities == {I(-1), I(0), I(15), Q(377, 25)}
Turns == {I(-1), I(0), I(6)}
ParticleDensities == {I(1), I(2650)}
GasDensities == {I(0), I(1), Q(49, 40)}
Coefficients == {I(8), I(10), I(16)}
Diameters == {I(-10), I(0), Q(5, 2), I(5), I(10), I(20)}
CutSizes == {I(-10), I(0), I(10), Q(5, 2), PyInf}
Efficiencies == {I(0), Q(1, 4), Q(1, 2), Q(3, 4), I(1)}
Counts == -1 .. MaxCount

\* the result of a call that is still to be made
Pending == Other("pending", 0, FALSE)

TurnsArgs ==
    [inlet_height : Lengths, body_length : Lengths, cone_length : Lengths]

CutSizeArgs ==
    [inlet_width : Widths, gas_viscosity : Viscosities,
     inlet_velocity : Velocities, effective_turns : Turns,
     particle_density : ParticleDensities, gas_density : GasDensities]

\* either argument may be a Python float or a numpy float64
EfficiencyArgs ==
    [particle_size_micron : Diameters \cup {AsNp(x) : x \in Diameters},
     cut_size_micron : CutSizes \cup {AsNp(x) : x \in CutSizes}]

PressureLossArgs ==
    [gas_density : GasDensities, inlet_velocity : Velocities,
     pressure_coefficient : Coefficients, series_count : 1 .. MaxSeries]

MultiArgs == [single_efficiency : Efficiencies, cyclone_count : Counts]

\* the quantities converted: flow rates, velocities, lengths, pressures
Quantities == {I(-1), I(0), Q(181, 10000000), Q(5, 2), Q(521, 50), I(625)}

\* a conversion and then its opposite, in either order
ConversionArgs ==
    { [first |-> p[1], second |-> p[2], x |-> q] :
        p \in ConversionPairs, q \in Quantities }
    \cup { [first |-> p[2], second |-> p[1], x |-> q] :
        p \in ConversionPairs, q \in Quantities }

\* the wrapper's parameters, and pressure_coeff_K: the coefficient the
\* caller holds for its preset, which the wrapper has no parameter for
WrapperArgs ==
    [model_type : Models, preset_option : Presets, rho_g : GasDensities,
     V_in : Velocities, series_count : 1 .. MaxSeries,
     pressure_coeff_K : Coefficients]

\* the cut-sizes and unit counts the script's later statements can meet:
\* a numpy float64 from the square root or the sentinel; one series stage
\* and at most two units outside the series-parallel design case
DownstreamArgs ==
    {a \in [cut_size_micron : {AsNp(I(0)), AsNp(Q(5, 2)), AsNp(I(10)), PyInf},
            preset : Presets, dp_range : {DefaultRange, <<I(1), I(80)>>},
            series_count : 1 .. MaxSeries, n_cyclones : 1 .. MaxCount] :
        /\ a.dp_range = PresetDefaults(a.preset).dp_range
        /\ IF a.preset = "actual"
           THEN \E parallel_count \in 1 .. MaxCount : a.n_cyclones = a.series_count * parallel_count
           ELSE a.series_count = 1 /\ a.n_cyclones <= 2}

\* cut-sizes of the report: 2^-30, 2.5, 28 and the sentinel
ReportCutSizes == {AsNp(Q(1, 1073741824)), AsNp(Q(5, 2)), AsNp(I(28)), PyInf}

ReportArgs ==
    {a \in [cut_size_micron : ReportCutSizes, preset : Presets,
            series_count : 1 .. MaxSeries, n_cyclones : 1 .. MaxCount] :
        IF a.preset = "actual"
        THEN \E parallel_count \in 1 .. MaxCount : a.n_cyclones = a.series_count * parallel_count
        ELSE a.series_count = 1 /\ a.n_cyclones <= 2}

CallEffectiveTurns ==
    /\ fn = "calculate_effective_turns" /\ res = Pending
    /\ res' = calculate_effective_turns(args.inlet_height, args.body_length,
                                        args.cone_length)
    /\ UNCHANGED <<fn, args, inp, out>>

CallCutSize ==
    /\ fn = "calculate_cut_size" /\ res = Pending
    /\ res' = calculate_cut_size(args.inlet_width, args.gas_viscosity,
                                 args.inlet_velocity, args.effective_turns,
                                 args.particle_density, args.gas_density)
    /\ UNCHANGED <<fn, args, inp, out>>

CallCollectionEfficiency ==
    /\ fn = "calculate_collection_efficiency" /\ res = Pending
    /\ res' = calculate_collection_efficiency(args.particle_size_micron,
                                              args.cut_size_micron)
    /\ UNCHANGED <<fn, args, inp, out>>

CallSystemPressureLoss ==
    /\ fn = "calculate_system_pressure_loss" /\ res = Pending
    /\ res' = calculate_system_pressure_loss(args.gas_density, args.inlet_velocity,
                                             args.pressure_coefficient,
                                             I(args.series_count))
    /\ UNCHANGED <<fn, args, inp, out>>

CallMultiCycloneEfficiency ==
    /\ fn = "calculate_multi_cyclone_efficiency" /\ res = Pending
    /\ res' = calculate_multi_cyclone_efficiency(args.single_efficiency,
                                                 args.cyclone_count)
    /\ UNCHANGED <<fn, args, inp, out>>

CallPressureLoss ==
    /\ fn = "calculate_pressure_loss" /\ res = Pending
    /\ res' = calculate_pressure_loss(args.model_type, args.rho_g, args.V_in,
                                      I(args.series_count), args.preset_option)
    /\ UNCHANGED <<fn, args, inp, out>>

\* a value converted and converted back
CallConversions ==
    /\ fn = "CycloneUnits" /\ res = Pending
    /\ res' = Convert(args.second, Convert(args.first, args.x))
    /\ UNCHANGED <<fn, args, inp, out>>

\* the script's statements after the unit counts, run on a cut-size
RunDownstream ==
    /\ fn = "downstream" /\ res = Pending
    /\ res' = Downstream(args, [cut_size_micron |-> args.cut_size_micron,
                                series_count |-> args.series_count,
                                n_cyclones |-> args.n_cyclones])
    /\ UNCHANGED <<fn, args, inp, out>>

RunReport ==
    /\ fn = "report" /\ res = Pending
    /\ res' = Report(args)
    /\ UNCHANGED <<fn, args, inp, out>>

InitCore ==
    /\ res = Pending
    /\ \/ fn = "calculate_effective_turns" /\ args \in TurnsArgs
       \/ fn = "calculate_cut_size" /\ args \in CutSizeArgs
       \/ fn = "calculate_collection_efficiency" /\ args \in EfficiencyArgs
       \/ fn = "calculate_system_pressure_loss" /\ args \in PressureLossArgs
       \/ fn = "calculate_multi_cyclone_efficiency" /\ args \in MultiArgs
       \/ fn = "calculate_pressure_loss" /\ args \in WrapperArgs
       \/ fn = "CycloneUnits" /\ args \in ConversionArgs
       \/ fn = "downstream" /\ args \in DownstreamArgs
       \/ fn = "report" /\ args \in ReportArgs

\* the script's first run: the custom preset with the widgets' defaults
InitialInputs == PresetDefaults("custom") @@ [model_type |-> "Lapple"]

InitScript ==
    /\ inp = InitialInputs
    /\ out = Pipeline(InitialInputs)

Init ==
    /\ InitScript
    /\ InitCore

Next ==
    \/ CallEffectiveTurns
    \/ CallCutSize
    \/ CallCollectionEfficiency
    \/ CallSystemPressureLoss
    \/ CallMultiCycloneEfficiency
    \/ CallPressureLoss
    \/ CallConversions
    \/ RunDownstream
    \/ RunReport

Spec == Init /\ [][Next]_vars

\* the call has been made
Called(f) == fn = f /\ res # Pending

----------------------------------------------------------------------------
(* The script: a change of a widget reruns it from top to bottom.          *)

\* the values the widgets are set to, next to the preset's defaults
FlowRates == {Q(5, 2), I(12)}
\* the viscosity widget has no lower limit
ScriptViscosities == {I(0)}
\* 1000 is the one density both density widgets admit
ScriptParticleDensities == {I(1000)}

Rerun(i) == inp' = i /\ out' = Pipeline(i) /\ UNCHANGED <<fn, args, res>>

SelectPreset ==
    \E p \in Presets \ {inp.preset} :
        Rerun(PresetDefaults(p) @@ [model_type |-> inp.model_type])

SetFlowRate ==
    \E q \in (FlowRates \cup {PresetDefaults(inp.preset).Q_total})
                \ {inp.Q_total} :
        Rerun(IF inp.preset = "actual"
              THEN [inp EXCEPT !.Q_total = q]
              ELSE [inp EXCEPT !.Q_total = q, !.n_cyclones = MaxCyclones(q)])

SetViscosity ==
    \E m \in (ScriptViscosities \cup {PresetDefaults(inp.preset).mu})
                \ {inp.mu} :
        Rerun([inp EXCEPT !.mu = m])

SetParticleDensity ==
    \E d \in (ScriptParticleDensities \cup {PresetDefaults(inp.preset).rho_p})
                \ {inp.rho_p} :
        Rerun([inp EXCEPT !.rho_p = d])

SetSeriesCount ==
    /\ inp.preset = "actual"
    /\ \E k \in (1 .. MaxSeries) \ {inp.series_count} :
            Rerun([inp EXCEPT !.series_count = k,
                              !.n_cyclones = k * inp.parallel_count])

SetParallelCount ==
    /\ inp.preset = "actual"
    /\ \E k \in (1 .. MaxParallel) \ {inp.parallel_count} :
            Rerun([inp EXCEPT !.parallel_count = k,
                              !.n_cyclones = inp.series_count * k])

SelectCycloneCount ==
    /\ inp.preset # "actual"
    /\ \E k \in (1 .. MaxCyclones(inp.Q_total)) \ {inp.n_cyclones} :
            Rerun([inp EXCEPT !.n_cyclones = k])

SelectModel ==
    \E m \in Models \ {inp.model_type} : Rerun([inp EXCEPT !.model_type = m])

InitPipe ==
    /\ fn = "none"
    /\ args = <<>>
    /\ res = Pending
    /\ InitScript

NextPipe ==
    \/ SelectPreset
    \/ SetFlowRate
    \/ SetViscosity
    \/ SetParticleDensity
    \/ SetSeriesCount
    \/ SetParallelCount
    \/ SelectCycloneCount
    \/ SelectModel

PipeSpec == InitPipe /\ [][NextPipe]_vars

----------------------------------------------------------------------------
(* Properties of the core functions, checked under Spec.                   *)

\* C1: calculate_cut_size returns the infinite sentinel exactly when
\* particle_density <= gas_density, or effective_turns <= 0, or
\* inlet_velocity <= 0.
C1_SentinelExactlyWhenDegenerate ==
    Called("calculate_cut_size") =>
        (Same(res, PyInf) <=>
            \/ Le(args.particle_density, args.gas_density)
            \/ Le(args.effective_turns, I(0))
            \/ Le(args.inlet_velocity, I(0)))

\* one condition alone (the velocity) forces the sentinel
C1_Witness ==
    /\ Called("calculate_cut_size")
    /\ Lt(args.gas_density, args.particle_density)
    /\ Lt(I(0), args.effective_turns)
    /\ Le(args.inlet_velocity, I(0))
    /\ Same(res, PyInf)

\* C2: for every particle diameter <= 0 and every cut-size,
\* calculate_collection_efficiency returns 0.
C2_ZeroForNonPositiveDiameter ==
    (Called("calculate_collection_efficiency")
        /\ Le(args.particle_size_micron, I(0))) => Same(res, I(0))

\* C3: no core calculation raises, whatever finite numbers it is given.
C3_NeverRaises == fn # "downstream" => res.k # "raise"

\* C4 as stated: for cyclone_count >= 1 and single_efficiency in [0,1) the
\* result is >= single_efficiency, with equality iff cyclone_count = 1.
C4_EqualOnlyForOneUnit ==
    (/\ Called("calculate_multi_cyclone_efficiency")
     /\ args.cyclone_count >= 1
     /\ Le(I(0), args.single_efficiency)
     /\ Lt(args.single_efficiency, I(1)))
    => /\ Le(args.single_efficiency, res)
       /\ Same(res, args.single_efficiency) <=> args.cyclone_count = 1

\* C4 amended: for cyclone_count >= 1 and single_efficiency in [0,1) the
\* result is >= single_efficiency, with equality iff cyclone_count = 1 or
\* single_efficiency = 0.
C4_EqualOnlyForOneUnitOrZero ==
    (/\ Called("calculate_multi_cyclone_efficiency")
     /\ args.cyclone_count >= 1
     /\ Le(I(0), args.single_efficiency)
     /\ Lt(args.single_efficiency, I(1)))
    => /\ Le(args.single_efficiency, res)
       /\ Same(res, args.single_efficiency)
            <=> (args.cyclone_count = 1 \/ IsZero(args.single_efficiency))

\* several units of zero efficiency: the equality the amendment adds
C4_Witness ==
    /\ Called("calculate_multi_cyclone_efficiency")
    /\ args.cyclone_count > 1
    /\ IsZero(args.single_efficiency)
    /\ Same(res, args.single_efficiency)

\* C5: the compounded efficiency does not decrease when cyclone_count grows
\* (single_efficiency in [0,1], cyclone_count >= 1) nor when
\* single_efficiency grows, and it stays in [0,1].
C5_MonotoneAndBounded ==
    (/\ Called("calculate_multi_cyclone_efficiency")
     /\ args.cyclone_count >= 1
     /\ Le(I(0), args.single_efficiency)
     /\ Le(args.single_efficiency, I(1)))
    => /\ Le(I(0), res) /\ Le(res, I(1))
       /\ Le(res, calculate_multi_cyclone_efficiency(args.single_efficiency,
                                                     args.cyclone_count + 1))
       /\ \A e \in Efficiencies :
            Le(args.single_efficiency, e) =>
                Le(res, calculate_multi_cyclone_efficiency(e, args.cyclone_count))

\* a strict increase with the count
C5_Witness ==
    /\ Called("calculate_multi_cyclone_efficiency")
    /\ args.cyclone_count >= 2
    /\ Lt(I(0), args.single_efficiency)
    /\ Lt(args.single_efficiency, I(1))
    /\ Lt(res, calculate_multi_cyclone_efficiency(args.single_efficiency,
                                                  args.cyclone_count + 1))

\* C7: a cut-size <= 0 or infinite gives efficiency 0 for every particle
\* size, zero and negative sizes included, and the call does not raise.
C7_ZeroForDegenerateCutSize ==
    (/\ Called("calculate_collection_efficiency")
     /\ Le(args.cut_size_micron, I(0)) \/ IsInf(args.cut_size_micron))
    => Same(res, I(0))

\* a zero particle size between Python floats, where a division would raise
C7_Witness ==
    /\ Called("calculate_collection_efficiency")
    /\ IsZero(args.cut_size_micron)
    /\ IsZero(args.particle_size_micron)
    /\ ~args.particle_size_micron.np /\ ~args.cut_size_micron.np
    /\ Same(res, I(0))

\* C8: calculate_effective_turns returns 6.0 whenever inlet_height <= 0 and
\* (body_length + cone_length / 2) / inlet_height otherwise.
C8_TurnsOrFallback ==
    Called("calculate_effective_turns") =>
        IF Le(args.inlet_height, I(0))
        THEN Same(res, I(6))
        ELSE Same(res, Div(Add(args.body_length, Div(args.cone_length, I(2))),
                           args.inlet_height))

\* a zero inlet height
C8_Witness ==
    /\ Called("calculate_effective_turns")
    /\ IsZero(args.inlet_height)
    /\ Same(res, I(6))

\* C6: when the cut-size is the infinite sentinel, every point of the
\* efficiency curves is 0, every Nj of the efficiency table is 0, and the
\* overall single-unit and multi-unit efficiencies are 0, for every unit
\* count.
C6_SentinelCollectsNothing ==
    (Called("downstream") /\ IsInf(args.cut_size_micron)) =>
        /\ \A j \in 1 .. Len(res.eta_array) : Same(res.eta_array[j], I(0))
        /\ \A j \in 1 .. Len(res.eta_multi_array) :
                Same(res.eta_multi_array[j], I(0))
        /\ \A j \in 1 .. Len(res.efficiency_table) :
                Same(res.efficiency_table[j].Nj, I(0))
        /\ Same(res.single_cyclone_efficiency, I(0))
        /\ Same(res.multi_cyclone_efficiency, I(0))

\* the sentinel met by the series-parallel design case with several units
C6_Witness ==
    /\ Called("downstream")
    /\ IsInf(args.cut_size_micron)
    /\ args.preset = "actual" /\ args.series_count > 1
    /\ args.n_cyclones > args.series_count
    /\ Len(res.eta_array) = CurvePoints
    /\ Len(res.efficiency_table) = Len(image_particle_data)
    /\ Same(res.multi_cyclone_efficiency, I(0))

\* C9: when particle_density > gas_density, effective_turns > 0,
\* inlet_velocity > 0, gas_viscosity > 0 and inlet_width > 0,
\* calculate_cut_size returns a finite dpc > 0 with
\* dpc^2 * 2 pi effective_turns inlet_velocity (particle_density -
\* gas_density) = 9 gas_viscosity inlet_width; and the micrometre cut-size
\* the script's later statements use is the returned value times 10^6.
C9_CutSizeIdentity ==
    /\ (/\ Called("calculate_cut_size")
        /\ Lt(args.gas_density, args.particle_density)
        /\ Lt(I(0), args.effective_turns)
        /\ Lt(I(0), args.inlet_velocity)
        /\ Lt(I(0), args.gas_viscosity)
        /\ Lt(I(0), args.inlet_width))
       => /\ IsFin(res) /\ Lt(I(0), res)
          /\ Same(Mul(Pow(res, 2),
                      Mul(Mul(Mul(Mul(I(2), Pi), args.effective_turns),
                              args.inlet_velocity),
                          Sub(args.particle_density, args.gas_density))),
                  Mul(Mul(I(9), args.gas_viscosity), args.inlet_width))
    /\ Same(out.cut_size_meter,
            calculate_cut_size(inp.W, inp.mu, inp.V_in, out.effective_turns,
                               inp.rho_p, inp.rho_g))
    /\ Same(out.cut_size_micron, Mul(out.cut_size_meter, I(1000000)))
    /\ \A j \in 1 .. Len(out.efficiency_table) :
            Same(Mul(out.efficiency_table[j].dpc_dp,
                     out.efficiency_table[j].dp_avg),
                 Mul(out.cut_size_meter, I(1000000)))

\* a cut-size between 0 and 1 metre from non-degenerate arguments
C9_Witness ==
    /\ Called("calculate_cut_size")
    /\ Lt(args.gas_density, args.particle_density)
    /\ Lt(I(0), args.effective_turns)
    /\ Lt(I(0), args.inlet_velocity)
    /\ Lt(I(0), args.gas_viscosity)
    /\ Lt(I(0), args.inlet_width)
    /\ Lt(I(0), res) /\ Lt(res, I(1))
    /\ Lt(I(1), out.cut_size_micron)

\* Nj as the claims state it for a bin of diameter dp_avg: 1/(1 + ratio^2)
\* for ratio = cut_size / dp_avg, and 0 when the ratio is infinite
StatedNj(cut_size, dp_avg) ==
    IF IsInf(Div(cut_size, dp_avg)) THEN I(0)
    ELSE Div(I(1), Add(I(1), Pow(Div(cut_size, dp_avg), 2)))

\* the sum over the first j bins of Nj times the bin's share Mj_percent/unit
RECURSIVE MassWeightedSum(_, _, _)
MassWeightedSum(cut_size, j, unit) ==
    IF j = 0 THEN I(0)
    ELSE Add(MassWeightedSum(cut_size, j - 1, unit),
             Mul(StatedNj(cut_size, image_particle_data[j].dp_avg),
                 Div(image_particle_data[j].Mj_percent, I(unit))))

\* the efficiency table has one row per bin, in bin order, with the bin's
\* dpc/dp ratio, its Nj and its collected share Nj * Mj_percent / unit
TableRowsAsStated(cut_size, table, unit) ==
    /\ Len(table) = Len(image_particle_data)
    /\ \A j \in 1 .. Len(image_particle_data) :
        /\ table[j].size_range = image_particle_data[j].size_range
        /\ table[j].dp_avg = image_particle_data[j].dp_avg
        /\ Same(table[j].dpc_dp, Div(cut_size, image_particle_data[j].dp_avg))
        /\ Same(table[j].Nj, StatedNj(cut_size, image_particle_data[j].dp_avg))
        /\ Same(table[j].collected,
                Mul(table[j].Nj,
                    Div(image_particle_data[j].Mj_percent, I(unit))))

\* C12 as stated: the overall single-unit efficiency is the sum over the
\* bins of Nj * (Mj_percent / 100), and the table has one row per bin, in
\* order, with the bin's ratio, Nj and collected amount.
C12_SumOfFractions ==
    Called("downstream") =>
        /\ TableRowsAsStated(args.cut_size_micron, res.efficiency_table, 100)
        /\ Same(res.single_cyclone_efficiency,
                MassWeightedSum(args.cut_size_micron,
                                Len(image_particle_data), 100))

\* C12 amended: the overall single-unit efficiency is a percentage, the sum
\* over the bins of Nj * Mj_percent, and each row's collected amount is
\* Nj * Mj_percent.
C12_SumOfPercentages ==
    Called("downstream") =>
        /\ TableRowsAsStated(args.cut_size_micron, res.efficiency_table, 1)
        /\ Same(res.single_cyclone_efficiency,
                MassWeightedSum(args.cut_size_micron,
                                Len(image_particle_data), 1))

\* a finite positive cut-size: an overall efficiency between 1 and 100
C12_Witness ==
    /\ Called("downstream")
    /\ Same(args.cut_size_micron, I(10))
    /\ Len(res.efficiency_table) = 8
    /\ Lt(I(1), res.single_cyclone_efficiency)
    /\ Lt(res.single_cyclone_efficiency, I(100))

\* C15: for every particle diameter and every cut-size,
\* calculate_collection_efficiency returns a value in [0,1).
C15_EfficiencyInUnitInterval ==
    Called("calculate_collection_efficiency") =>
        IsFin(res) /\ Le(I(0), res) /\ Lt(res, I(1))

\* C16: for a finite cut-size dpc > 0, a particle of diameter dpc is
\* collected at exactly 0.5, a larger particle at more than 0.5 and a smaller
\* positive one at less than 0.5.
C16_HalfAtCutSize ==
    (/\ Called("calculate_collection_efficiency")
     /\ IsFin(args.cut_size_micron)
     /\ Lt(I(0), args.cut_size_micron)
     /\ Lt(I(0), args.particle_size_micron))
    => /\ Same(args.particle_size_micron, args.cut_size_micron)
            => Same(res, Q(1, 2))
       /\ Lt(args.cut_size_micron, args.particle_size_micron)
            => Lt(Q(1, 2), res)
       /\ Lt(args.particle_size_micron, args.cut_size_micron)
            => Lt(res, Q(1, 2))

\* a particle of the cut-size's diameter
C16_Witness ==
    /\ Called("calculate_collection_efficiency")
    /\ Lt(I(0), args.cut_size_micron)
    /\ Same(args.particle_size_micron, args.cut_size_micron)
    /\ Same(res, Q(1, 2))

\* the magnitude of a number
Magnitude(x) == IF x.s < 0 THEN Neg(x) ELSE x

\* a equals b to within a relative tolerance of 10^-9
WithinTolerance(a, b) ==
    Le(Magnitude(Sub(a, b)), Mul(Q(1, 1000000000), Magnitude(b)))

\* C17: each conversion of CycloneUnits followed by its opposite returns the
\* value it started from, within tolerance, in both orders of composition.
C17_ConversionsRoundTrip ==
    Called("CycloneUnits") => WithinTolerance(res, args.x)

\* a length in micrometres converted to metres and back
C17_Witness ==
    /\ Called("CycloneUnits")
    /\ args.first = "micron_to_meter" /\ args.second = "meter_to_micron"
    /\ Lt(I(0), args.x)
    /\ WithinTolerance(res, args.x)

\* C11: the loss the wrapper calculate_pressure_loss returns is computed
\* with the coefficient K held for the chosen model and preset, not with a
\* coefficient fixed inside the wrapper.
C11_CoefficientOfPresetUsed ==
    Called("calculate_pressure_loss") =>
        Same(res, calculate_system_pressure_loss(
                      args.rho_g, args.V_in, args.pressure_coeff_K,
                      I(args.series_count)))

\* the report's or the downstream run's cut-size is positive or the sentinel
CutSizePositiveOrInfinite ==
    \/ IsInf(args.cut_size_micron) /\ args.cut_size_micron.s > 0
    \/ IsFin(args.cut_size_micron) /\ args.cut_size_micron.s > 0

\* single is in [0, 100), multi in [0, 100], and multi is not below single
BoundedAsStated(single, multi) ==
    /\ Le(I(0), single) /\ Lt(single, I(100))
    /\ Le(I(0), multi) /\ Le(multi, I(100))
    /\ Le(single, multi)

\* C22 as stated: with the eight-bin distribution, for every cut-size that
\* is positive or the infinite sentinel and every unit count >= 1, the
\* reported single-unit efficiency lies in [0, 100), the reported
\* multi-cyclone efficiency in [0, 100], and the multi-cyclone efficiency
\* is not below the single-unit efficiency.
C22_EfficienciesBounded ==
    (Called("report") /\ CutSizePositiveOrInfinite) =>
        BoundedAsStated(res.single_cyclone_efficiency,
                        res.multi_cyclone_efficiency)

\* C22, amended: the statement holds of the real numbers the doubles
\* approximate; of the doubles the script reports, the single-unit
\* efficiency lies in [0, 100] (100 is reached when every Nj rounds to 1),
\* the multi-cyclone efficiency in [0, 100], and the multi-cyclone
\* efficiency is below the single-unit efficiency by no more than 1e-9.
C22_EfficienciesBoundedUpToRounding ==
    /\ (Called("downstream") /\ CutSizePositiveOrInfinite) =>
            BoundedAsStated(res.single_cyclone_efficiency,
                            res.multi_cyclone_efficiency)
    /\ (Called("report") /\ CutSizePositiveOrInfinite) =>
            /\ Le(I(0), res.single_cyclone_efficiency)
            /\ Le(res.single_cyclone_efficiency, I(100))
            /\ Le(I(0), res.multi_cyclone_efficiency)
            /\ Le(res.multi_cyclone_efficiency, I(100))
            /\ Le(Sub(res.single_cyclone_efficiency, Q(1, 1000000000)),
                  res.multi_cyclone_efficiency)

\* one unit at cut-size 28: the compounded double is below the single one
C22_Witness ==
    /\ Called("report")
    /\ Same(args.cut_size_micron, I(28))
    /\ CompoundCount(args.preset, args.series_count, args.n_cyclones) = 1
    /\ Lt(res.multi_cyclone_efficiency, res.single_cyclone_efficiency)
    /\ Lt(I(62), res.multi_cyclone_efficiency)

----------------------------------------------------------------------------
(* C20: in the series-parallel preset, with the single-unit efficiency and
   the parallel count held fixed, the multi-cyclone efficiency (the aggregate
   figure and every point of the comparison curve) is never lower than it is
   with one series stage fewer; in particular two stages never give less
   than one. *)
C20_SeriesNeverLowersEfficiency ==
    (Called("downstream") /\ args.preset = "actual" /\ args.series_count > 1)
        => /\ Le(MultiCycloneEfficiency(res.single_cyclone_efficiency, args.preset, args.series_count - 1, (args.n_cyclones \div args.series_count) * (args.series_count - 1)), res.multi_cyclone_efficiency)
           /\ \A j \in 1 .. CurvePoints : Le(EtaMultiArray(res.eta_array, args.preset, args.series_count - 1, (args.n_cyclones \div args.series_count) * (args.series_count - 1))[j], res.eta_multi_array[j])

(* Properties of the script, checked under PipeSpec.                       *)

\* the loss of one stage for the script's gas density and inlet velocity
SingleStageLoss ==
    Mul(Mul(Mul(Q(1, 2), inp.rho_g), Pow(inp.V_in, 2)), I(PressureCoefficient))

\* the inputs before and after a step differ in nothing but the parallel
\* count and the number of cyclones
OnlyUnitCountsChange ==
    /\ inp' # inp
    /\ [inp' EXCEPT !.parallel_count = 0, !.n_cyclones = 0]
         = [inp EXCEPT !.parallel_count = 0, !.n_cyclones = 0]

\* C10: the system pressure loss is 0.5 * rho_g * V_in^2 * 16 * series_count,
\* that is series_count times the loss of one stage, and a step that changes
\* only the parallel count or the number of cyclones leaves it unchanged.
C10_PressureLossBySeriesOnly ==
    /\ [](/\ Same(out.system_pressure_loss,
                   Mul(SingleStageLoss, I(out.series_count)))
          /\ Same(out.pressure_loss, out.system_pressure_loss)
          /\ out.series_count
                = IF inp.preset = "actual" THEN inp.series_count ELSE 1)
    /\ [][OnlyUnitCountsChange =>
            Same(out'.system_pressure_loss, out.system_pressure_loss)]_vars

\* C13: for every bin and every cut-size, the table's Nj is
\* calculate_collection_efficiency(dp_avg, cut_size_micron): the table and
\* the efficiency curve agree at the same particle size.
C13_TableAgreesWithCurve ==
    \A j \in 1 .. Len(out.efficiency_table) :
        Same(out.efficiency_table[j].Nj,
             calculate_collection_efficiency(out.efficiency_table[j].dp_avg,
                                             out.cut_size_micron))

\* C18: with 'EPA Standard' selected, for which the Lapple formulas and
\* K = 16 are computed, the script shows a caveat that it does not show for
\* the same inputs with 'Lapple' selected.
C18_FallbackSurfaced ==
    inp.model_type = "EPA Standard" =>
        out.notices
            # Notices([inp EXCEPT !.model_type = "Lapple"],
                      out.required_cyclones)

\* C19: the second computation of required_cyclones, n_cyclones, eta_array
\* and eta_multi_array yields the values of the first, and the pressure loss
\* computed through the wrapper is the system pressure loss.
C19_RecomputationIdempotent ==
    /\ out.required_cyclones = out.first.required_cyclones
    /\ out.n_cyclones = out.first.n_cyclones
    /\ Len(out.eta_array) = Len(out.first.eta_array)
    /\ \A j \in 1 .. Len(out.eta_array) :
            Same(out.eta_array[j], out.first.eta_array[j])
    /\ Len(out.eta_multi_array) = Len(out.first.eta_multi_array)
    /\ \A j \in 1 .. Len(out.eta_multi_array) :
            Same(out.eta_multi_array[j], out.first.eta_multi_array[j])
    /\ Same(out.pressure_loss, out.system_pressure_loss)

\* a flow that needs more than two units, limited to two both times
C19_Witness ==
    /\ inp.preset # "actual"
    /\ Same(inp.Q_total, I(12))
    /\ out.first.required_cyclones > 2
    /\ out.first.n_cyclones = 2
    /\ out.n_cyclones = 2
    /\ Lt(I(0), out.eta_multi_array[1])

\* C21: outside the series-parallel design case, whatever count the
\* selectbox holds, the calculation uses series_count = 1 and
\* n_cyclones = min(ceil(Q_total / (V_in * inlet_area)), 2), at both of its
\* assignments: n_cyclones is 1 or 2 and the pressure loss is the loss of
\* one stage.
C21_SingleStageAtMostTwoUnits ==
    inp.preset # "actual" =>
        /\ out.series_count = 1
        /\ out.first.n_cyclones = Min(CeilInt(Div(inp.Q_total, Mul(inp.V_in, Mul(inp.W, inp.H)))), 2)
        /\ out.n_cyclones = out.first.n_cyclones
        /\ out.n_cyclones \in {1, 2}
        /\ Same(out.system_pressure_loss, SingleStageLoss)
        /\ Same(out.pressure_loss, SingleStageLoss)

\* one unit selected for a flow that needs more than two: two are used
C21_Witness ==
    /\ inp.preset # "actual"
    /\ Same(inp.Q_total, I(12))
    /\ inp.n_cyclones = 1
    /\ out.n_cyclones = 2
    /\ out.series_count = 1
    /\ Lt(I(0), out.system_pressure_loss)

\* the unit count the claim names: series_count when the series-parallel
\* preset is selected with series_count > 1, n_cyclones otherwise
StatedUnitCount ==
    IF inp.preset = "actual" /\ out.series_count > 1
    THEN out.series_count ELSE out.n_cyclones

\* C23: every point of eta_multi_array and the aggregate
\* multi_cyclone_efficiency are compounded with one and the same unit
\* count: series_count when the series-parallel preset is selected with
\* series_count > 1, and n_cyclones otherwise.
C23_CurveAndAggregateShareUnitCount ==
    /\ \A j \in 1 .. Len(out.eta_multi_array) :
            Same(out.eta_multi_array[j],
                 Sub(I(1), Pow(Sub(I(1), out.eta_array[j]), StatedUnitCount)))
    /\ Same(out.multi_cyclone_efficiency,
            Mul(Sub(I(1), Pow(Sub(I(1), Div(out.single_cyclone_efficiency, I(100))), StatedUnitCount)), I(100)))

\* two stages in series in more than one parallel line: both results are
\* compounded with 2, not with the number of cyclones
C23_Witness ==
    /\ inp.preset = "actual"
    /\ out.series_count = 2
    /\ out.n_cyclones > 2
    /\ Lt(I(0), out.eta_array[1]) /\ Lt(out.eta_array[1], I(1))
    /\ Same(out.eta_multi_array[1],
            Sub(I(1), Pow(Sub(I(1), out.eta_array[1]), 2)))
    /\ Lt(out.single_cyclone_efficiency, out.multi_cyclone_efficiency)

\* three stages in series, the parallel count changed from its default
C10_Witness ==
    /\ inp.preset = "actual"
    /\ inp.series_count = MaxSeries
    /\ inp.parallel_count # PresetDefaults("actual").parallel_count
    /\ Same(out.system_pressure_loss, Mul(SingleStageLoss, I(MaxSeries)))
    /\ Lt(SingleStageLoss, out.system_pressure_loss)

====
